---- MODULE Spec2Model ----
(***************************************************************************)
(* Model of config/management/genesis/src/verify.rs: verify_genesis dumps  *)
(* nine values of the validator's secure storage into a text buffer and,   *)
(* when a genesis file is given, compare_genesis replays the genesis on a  *)
(* temporary ledger and appends comparison lines.                          *)
(*                                                                         *)
(* One run of verify_genesis is modelled statement by statement.  The      *)
(* secure storage is an input fixed in Init; what the file system, the    *)
(* genesis file and the ledger answer is drawn where the code asks.        *)
(***************************************************************************)
EXTENDS Naturals, Sequences, FiniteSets, TLC

VARIABLES
    genesis_path,   \* verify_genesis' argument: None or Some(path)
    store,          \* validator_storage: what each key of the secure storage holds
    pc,             \* the statement the run is about to execute
    buffer,         \* verify_genesis' `buffer`: the lines written so far
    loc,            \* compare_genesis' local variables
    db_dir,         \* the directory of db_path on disk: "absent" or "exists"
    ledger,         \* the temporary ledger: "closed", "empty" or "genesis"
    cg,             \* compare_genesis' return value seen by verify_genesis
    returned,       \* verify_genesis' return value
    steps           \* history: the fallible operations of compare_genesis performed so
                    \* far: [op, ok, arg (the error, or the waypoint used), out (the
                    \* addresses decoded)]

vars == <<genesis_path, store, pc, buffer, loc, db_dir, ledger, cg, returned, steps>>

----------------------------------------------------------------------------
(* Bounds of the model *)

\* longest address list a validator record holds
MaxAddrs == 2
\* largest validator set a ledger holds
MaxValidators == 2

----------------------------------------------------------------------------
(* Option and Result *)

None == <<>>
Some(x) == <<x>>

Ok(x) == [ok |-> TRUE, v |-> x]
Err(e) == [ok |-> FALSE, e |-> e]

\* Result::map
Map(r, F(_)) == IF r.ok THEN Ok(F(r.v)) ELSE r

\* Result::unwrap_or_else
UnwrapOrElse(r, F(_)) == IF r.ok THEN r.v ELSE F(r.e)

----------------------------------------------------------------------------
(* Keys of the secure storage *)

CONSENSUS_KEY == "CONSENSUS_KEY"
FULLNODE_NETWORK_KEY == "FULLNODE_NETWORK_KEY"
OPERATOR_ACCOUNT == "OPERATOR_ACCOUNT"
OPERATOR_KEY == "OPERATOR_KEY"
OWNER_ACCOUNT == "OWNER_ACCOUNT"
OWNER_KEY == "OWNER_KEY"
SAFETY_DATA == "SAFETY_DATA"
VALIDATOR_NETWORK_KEY == "VALIDATOR_NETWORK_KEY"
WAYPOINT == "WAYPOINT"

Keys == {CONSENSUS_KEY, FULLNODE_NETWORK_KEY, OPERATOR_ACCOUNT, OPERATOR_KEY,
         OWNER_ACCOUNT, OWNER_KEY, SAFETY_DATA, VALIDATOR_NETWORK_KEY, WAYPOINT}

----------------------------------------------------------------------------
(* Values *)

\* a key the storage does not hold
NotSet == "<not set>"

PrivateKeys == {"sk1", "sk2"}

\* the private keys the secure storage holds; the keys registered in the ledger
\* range over all of PrivateKeys
StoredPrivateKeys == {"sk1"}
Accounts == {"a1", "a2"}

\* Waypoint: version and hash; its canonical string is "version:hash"
Waypoints == {[version |-> 0, value |-> "h1"], [version |-> 0, value |-> "h2"]}

\* Display of Waypoint
WaypointToString(w) == (IF w.version = 0 THEN "0" ELSE "n") \o ":" \o w.value

\* Waypoint::from_str: the string must be a waypoint's canonical string
WaypointFromStr(s) ==
    IF \E w \in Waypoints : WaypointToString(w) = s
    THEN Ok(CHOOSE w \in Waypoints : WaypointToString(w) = s)
    ELSE Err("invalid waypoint string")

\* AccountAddress::from_str
AccountFromStr(s) ==
    IF s \in Accounts THEN Ok([address |-> s]) ELSE Err("invalid account address")

\* public keys derived from a private key, one type per scheme
PublicKey(scheme, sk) == [scheme |-> scheme, of |-> sk]

\* Display of a public key
KeyToString(k) == k.scheme \o "-pub(" \o k.of \o ")"

\* Display of management::error::Error
ErrToString(e) == "Error: " \o e

\* Error::UnexpectedError
UnexpectedError(msg) == "Unexpected error: " \o msg

----------------------------------------------------------------------------
(* StorageWrapper: typed reads of the secure storage *)

\* StorageWrapper::string
string(st, key) ==
    IF st[key] = NotSet
    THEN Err("Failed to read " \o key)
    ELSE Ok(st[key])

\* StorageWrapper::value::<SafetyData>, shown by Display
value_safety_data(st, key) == string(st, key)

\* the scheme-specific public key of the private key stored under `key`
public_from_private(st, key, scheme) ==
    IF st[key] \in PrivateKeys
    THEN Ok(PublicKey(scheme, st[key]))
    ELSE Err("Failed to read " \o key)

bls12381_public_from_private(st, key) == public_from_private(st, key, "bls12381")
ed25519_public_from_private(st, key) == public_from_private(st, key, "ed25519")
x25519_public_from_private(st, key) == public_from_private(st, key, "x25519")

\* StorageWrapper::waypoint: the stored string, parsed
waypoint(st, key) ==
    LET s == string(st, key) IN
    IF ~s.ok THEN s
    ELSE LET w == WaypointFromStr(s.v) IN
         IF w.ok THEN w ELSE Err("Failed to parse " \o key \o ": " \o w.e)

\* StorageWrapper::account_address: the stored string, parsed
account_address(st, key) ==
    LET s == string(st, key) IN
    IF ~s.ok THEN s
    ELSE LET a == AccountFromStr(s.v) IN
         IF a.ok THEN a ELSE Err("Failed to parse " \o key \o ": " \o a.e)

----------------------------------------------------------------------------
(* The writers of verify.rs: each yields the line it appends to the buffer *)

\* A line of the buffer is the sequence of the pieces its format string puts
\* together: <<text>> for "{}" and <<name, " - ", value>> for "{} - {}".
TextLine(text) == <<text>>

FieldLine(name, value) == <<name, " - ", value>>

BreakLine ==
    TextLine("====================================================================================")

write_assert(name, value) == FieldLine(name, IF value THEN "match" ELSE "MISMATCH")

write_break == BreakLine

write_bls12381_key(st, key) ==
    FieldLine(key, UnwrapOrElse(Map(bls12381_public_from_private(st, key), KeyToString),
                                ErrToString))

write_ed25519_key(st, key) ==
    FieldLine(key, UnwrapOrElse(Map(ed25519_public_from_private(st, key), KeyToString),
                                ErrToString))

write_x25519_key(st, key) ==
    FieldLine(key, UnwrapOrElse(Map(x25519_public_from_private(st, key), KeyToString),
                                ErrToString))

\* a failed read leaves the value blank
write_string_blank_on_error(st, key) ==
    FieldLine(key, UnwrapOrElse(string(st, key), LAMBDA e : ""))

write_string(st, key) == FieldLine(key, UnwrapOrElse(string(st, key), ErrToString))

SafetyDataToString(v) == "SafetyData: [" \o v \o "]"

write_safety_data(st, key) ==
    FieldLine(key, UnwrapOrElse(Map(value_safety_data(st, key), SafetyDataToString),
                                ErrToString))

WaypointValue(value) ==
    IF value = ""
    THEN "empty"
    ELSE UnwrapOrElse(Map(WaypointFromStr(value), WaypointToString),
                      LAMBDA e : "Invalid waypoint")

write_waypoint(st, key) ==
    FieldLine(key, UnwrapOrElse(Map(string(st, key), WaypointValue), ErrToString))

----------------------------------------------------------------------------
(* Network addresses and the validator set of the ledger *)

X25519Keys == {PublicKey("x25519", sk) : sk \in PrivateKeys}
Bls12381Keys == {PublicKey("bls12381", sk) : sk \in PrivateKeys}

Protocol(name, key) == [name |-> name, key |-> key]

\* a plain address, and one address per transport identity key
NetworkAddresses ==
    {<<Protocol("Ip4", None), Protocol("Tcp", None)>>}
    \cup {<<Protocol("Ip4", None), Protocol("Tcp", None),
            Protocol("NoiseIK", Some(k)), Protocol("Handshake", None)>> : k \in X25519Keys}

\* NetworkAddress::find_noise_proto: the key of the first NoiseIK protocol
find_noise_proto(addr) ==
    LET noise == {i \in 1..Len(addr) : addr[i].name = "NoiseIK"} IN
    IF noise = {} THEN None
    ELSE addr[CHOOSE i \in noise : \A j \in noise : i <= j].key

SeqsUpTo(S, n) == UNION {[1..m -> S] : m \in 0..n}

\* what decoding the address bytes of a validator record gives
DecodeOutcomes ==
    {Err("address decoding error")} \cup {Ok(l) : l \in SeqsUpTo(NetworkAddresses, MaxAddrs)}

\* the first address that carries a key, instead of the first address
FirstCarryingKey(list) ==
    LET keyed == {i \in 1..Len(list) : find_noise_proto(list[i]) # None} IN
    IF keyed = {} THEN None ELSE Some(list[CHOOSE i \in keyed : \A j \in keyed : i <= j])

\* Vec::get(0)
First(list) == IF Len(list) = 0 THEN None ELSE Some(list[1])

\* Option::and_then(find_noise_proto)
AndThenNoise(opt) == IF opt = None THEN None ELSE find_noise_proto(opt[1])

\* ValidatorInfo: the account and its ValidatorConfig
ValidatorInfos ==
    [account_address : {[address |-> a] : a \in Accounts},
     config : [consensus_public_key : Bls12381Keys]]

\* what reading the ValidatorSet resource of a committed genesis gives
ValidatorSetOutcomes ==
    {Err("ValidatorSet issue"), Ok(None)}
    \cup {Ok(Some(vs)) : vs \in SeqsUpTo(ValidatorInfos, MaxValidators)}

\* a ledger without the genesis holds no ValidatorSet
get_validator_set(l, committed) == IF l = "genesis" THEN committed ELSE Ok(None)

\* Iterator::find
Find(seq, P(_)) ==
    LET hits == {i \in 1..Len(seq) : P(seq[i])} IN
    IF hits = {} THEN None ELSE Some(seq[CHOOSE i \in hits : \A j \in hits : i <= j])

\* validator_config: the record of `validator_account` in the ledger's validator set
validator_config(validator_account, view_ok, l, committed) ==
    IF ~view_ok
    THEN Err(UnexpectedError("Can't create latest db state view"))
    ELSE LET vs == get_validator_set(l, committed) IN
         IF ~vs.ok THEN Err(UnexpectedError(vs.e))
         ELSE IF vs.v = None THEN Err(UnexpectedError("ValidatorSet does not exist"))
         ELSE LET info == Find(vs.v[1], LAMBDA vi : vi.account_address = validator_account) IN
              IF info = None
              THEN Err(UnexpectedError("Unable to find Validator account "
                                       \o validator_account.address))
              ELSE Ok(info[1].config)

----------------------------------------------------------------------------
(* Initial state *)

\* what the secure storage may hold under each key
Stores ==
    [CONSENSUS_KEY : StoredPrivateKeys \cup {NotSet},
     FULLNODE_NETWORK_KEY : StoredPrivateKeys \cup {NotSet},
     VALIDATOR_NETWORK_KEY : StoredPrivateKeys \cup {NotSet},
     OWNER_KEY : StoredPrivateKeys \cup {NotSet},
     OPERATOR_KEY : StoredPrivateKeys \cup {NotSet},
     OPERATOR_ACCOUNT : {"a1", NotSet},
     OWNER_ACCOUNT : Accounts \cup {"zz", NotSet},
     SAFETY_DATA : {"epoch: 1", NotSet},
     WAYPOINT : {WaypointToString(w) : w \in Waypoints} \cup {"", "bad", NotSet}]

\* Bound on the input of a run with a genesis file: the four keys compare_genesis
\* never reads are all set or all unset.
UnreadByCompare(st) ==
    \A j, k \in {OWNER_KEY, OPERATOR_KEY, OPERATOR_ACCOUNT, SAFETY_DATA} :
        (st[j] = NotSet) <=> (st[k] = NotSet)

NoLocals ==
    [expected_waypoint |-> None, actual_waypoint |-> None, validator_account |-> None,
     validator_config |-> None, actual_consensus_key |-> None,
     actual_validator_key |-> None, actual_fullnode_key |-> None,
     network_addrs |-> None, expected_validator_key |-> None,
     expected_fullnode_key |-> None]

Init ==
    /\ genesis_path \in {None, Some("genesis.blob")}
    /\ store \in Stores
    /\ genesis_path # None => UnreadByCompare(store)
    /\ pc = "start"
    /\ buffer = <<>>
    /\ loc = NoLocals
    /\ db_dir = "absent"
    /\ ledger = "closed"
    /\ cg = None
    /\ returned = None
    /\ steps = <<>>

----------------------------------------------------------------------------
(* verify_genesis: the dump of the secure storage *)

\* one statement that appends `lines` to the buffer and goes on to `to`
Write(from, to, lines) ==
    /\ pc = from
    /\ pc' = to
    /\ buffer' = buffer \o lines
    /\ UNCHANGED <<genesis_path, store, loc, db_dir, ledger, cg, returned, steps>>

WriteHeader ==
    Write("start", "consensus_key",
          <<TextLine("Data stored in SecureStorage:"), write_break, TextLine("Keys"), write_break>>)

WriteConsensusKey ==
    Write("consensus_key", "fullnode_network_key",
          <<write_bls12381_key(store, CONSENSUS_KEY)>>)

WriteFullnodeNetworkKey ==
    Write("fullnode_network_key", "owner_key",
          <<write_x25519_key(store, FULLNODE_NETWORK_KEY)>>)

WriteOwnerKey ==
    Write("owner_key", "operator_key", <<write_ed25519_key(store, OWNER_KEY)>>)

WriteOperatorKey ==
    Write("operator_key", "validator_network_key",
          <<write_ed25519_key(store, OPERATOR_KEY)>>)

WriteValidatorNetworkKey ==
    Write("validator_network_key", "data_header",
          <<write_ed25519_key(store, VALIDATOR_NETWORK_KEY)>>)

WriteDataHeader ==
    Write("data_header", "operator_account", <<write_break, TextLine("Data"), write_break>>)

WriteOperatorAccount ==
    Write("operator_account", "owner_account", <<write_string(store, OPERATOR_ACCOUNT)>>)

WriteOwnerAccount ==
    Write("owner_account", "safety_data", <<write_string(store, OWNER_ACCOUNT)>>)

WriteSafetyData ==
    Write("safety_data", "waypoint", <<write_safety_data(store, SAFETY_DATA)>>)

WriteWaypoint ==
    Write("waypoint", "end_break", <<write_waypoint(store, WAYPOINT)>>)

WriteEndBreak ==
    Write("end_break", "genesis_branch", <<write_break>>)

\* `if let Some(genesis_path) = genesis_path` not taken: Ok(buffer)
ReturnWithoutGenesis ==
    /\ pc = "genesis_branch"
    /\ genesis_path = None
    /\ returned' = Some(Ok(buffer))
    /\ buffer' = <<>>
    /\ pc' = "done"
    /\ UNCHANGED <<genesis_path, store, loc, db_dir, ledger, cg, steps>>

\* compare_genesis is entered: TempPath::new() names a directory without creating it
EnterCompareGenesis ==
    /\ pc = "genesis_branch"
    /\ genesis_path # None
    /\ pc' = "open_ledger"
    /\ UNCHANGED <<genesis_path, store, buffer, loc, db_dir, ledger, cg, returned, steps>>

----------------------------------------------------------------------------
(* compare_genesis *)

\* a fallible operation succeeded: the run goes on to `to`
Advance(op, arg, to) ==
    /\ pc' = to
    /\ steps' = Append(steps, [op |-> op, ok |-> TRUE, arg |-> arg, out |-> None])
    /\ cg' = cg

\* the `?` operator on an Err: compare_genesis returns it
Abort(op, e) ==
    /\ pc' = "cg_exit"
    /\ steps' = Append(steps, [op |-> op, ok |-> FALSE, arg |-> e, out |-> None])
    /\ cg' = Some(Err(e))

\* compute_genesis: AptosDB::open creates the ledger in the directory of db_path;
\* a failed open may leave the directory behind
OpenLedger ==
    /\ pc = "open_ledger"
    /\ \/ /\ ledger' = "empty"
          /\ db_dir' = "exists"
          /\ Advance("open_ledger", "", "open_genesis_file")
       \/ /\ ledger' = ledger
          /\ db_dir' \in {"absent", "exists"}
          /\ Abort("open_ledger", UnexpectedError("db open error"))
    /\ UNCHANGED <<genesis_path, store, buffer, loc, returned>>

\* compute_genesis: File::open(genesis_path)
OpenGenesisFile ==
    /\ pc = "open_genesis_file"
    /\ \/ Advance("open_genesis_file", "", "read_genesis")
       \/ Abort("open_genesis_file", UnexpectedError("Unable to open genesis file"))
    /\ UNCHANGED <<genesis_path, store, buffer, loc, db_dir, ledger, returned>>

\* compute_genesis: file.read_to_end
ReadGenesis ==
    /\ pc = "read_genesis"
    /\ \/ Advance("read_genesis", "", "parse_genesis")
       \/ Abort("read_genesis", UnexpectedError("Unable to read genesis"))
    /\ UNCHANGED <<genesis_path, store, buffer, loc, db_dir, ledger, returned>>

\* compute_genesis: bcs::from_bytes
ParseGenesis ==
    /\ pc = "parse_genesis"
    /\ \/ Advance("parse_genesis", "", "generate_waypoint")
       \/ Abort("parse_genesis", UnexpectedError("Unable to parse genesis"))
    /\ UNCHANGED <<genesis_path, store, buffer, loc, db_dir, ledger, returned>>

\* compute_genesis: db_bootstrapper::generate_waypoint, the ledger is left as it is
GenerateWaypoint ==
    /\ pc = "generate_waypoint"
    /\ \/ \E w \in Waypoints :
            /\ loc' = [loc EXCEPT !.expected_waypoint = Some(w)]
            /\ Advance("generate_waypoint", WaypointToString(w), "commit_genesis")
       \/ /\ loc' = loc
          /\ Abort("generate_waypoint", UnexpectedError("waypoint generation error"))
    /\ UNCHANGED <<genesis_path, store, buffer, db_dir, ledger, returned>>

\* compute_genesis: db_bootstrapper::maybe_bootstrap with the waypoint just generated
CommitGenesis ==
    /\ pc = "commit_genesis"
    /\ \/ /\ ledger' = "genesis"
          /\ Advance("commit_genesis", WaypointToString(loc.expected_waypoint[1]),
                     "read_waypoint")
       \/ /\ ledger' = ledger
          /\ Abort("commit_genesis", UnexpectedError("Unable to commit genesis"))
    /\ UNCHANGED <<genesis_path, store, buffer, loc, db_dir, returned>>

\* storage.waypoint(WAYPOINT)? and the WAYPOINT line
ReadStoredWaypoint ==
    /\ pc = "read_waypoint"
    /\ LET r == waypoint(store, WAYPOINT) IN
       IF r.ok
       THEN /\ loc' = [loc EXCEPT !.actual_waypoint = Some(r.v)]
            /\ buffer' = Append(buffer,
                                write_assert(WAYPOINT, r.v = loc.expected_waypoint[1]))
            /\ Advance("read_waypoint", "", "read_owner_account")
       ELSE /\ UNCHANGED <<loc, buffer>>
            /\ Abort("read_waypoint", r.e)
    /\ UNCHANGED <<genesis_path, store, db_dir, ledger, returned>>

\* an unreadable OWNER_ACCOUNT does not stop the run
ReadOwnerAccountContinuing ==
    /\ pc = "read_owner_account"
    /\ LET r == account_address(store, OWNER_ACCOUNT) IN
       /\ loc' = [loc EXCEPT !.validator_account =
                      Some(IF r.ok THEN r.v ELSE [address |-> "a1"])]
       /\ pc' = "validator_config"
       /\ steps' = Append(steps, [op |-> "read_owner_account", ok |-> r.ok, arg |-> "",
                                  out |-> None])
       /\ cg' = cg
    /\ UNCHANGED <<genesis_path, store, buffer, db_dir, ledger, returned>>

\* storage.account_address(OWNER_ACCOUNT)?
ReadOwnerAccount ==
    /\ pc = "read_owner_account"
    /\ LET r == account_address(store, OWNER_ACCOUNT) IN
       IF r.ok
       THEN /\ loc' = [loc EXCEPT !.validator_account = Some(r.v)]
            /\ Advance("read_owner_account", "", "validator_config")
       ELSE /\ loc' = loc
            /\ Abort("read_owner_account", r.e)
    /\ UNCHANGED <<genesis_path, store, buffer, db_dir, ledger, returned>>

\* validator_config(validator_account, db_rw.reader.clone())?
LookupValidatorConfig ==
    /\ pc = "validator_config"
    /\ \E view_ok \in BOOLEAN, committed \in ValidatorSetOutcomes :
         LET r == validator_config(loc.validator_account[1], view_ok, ledger, committed) IN
         IF r.ok
         THEN /\ loc' = [loc EXCEPT !.validator_config = Some(r.v)]
              /\ Advance("validator_config", "", "read_consensus_key")
         ELSE /\ loc' = loc
              /\ Abort("validator_config", r.e)
    /\ UNCHANGED <<genesis_path, store, buffer, db_dir, ledger, returned>>

\* the CONSENSUS_KEY line passes only if the waypoint matched as well
ReadConsensusKeyAfterWaypoint ==
    /\ pc = "read_consensus_key"
    /\ LET r == bls12381_public_from_private(store, CONSENSUS_KEY) IN
       IF r.ok
       THEN /\ loc' = [loc EXCEPT !.actual_consensus_key = Some(r.v)]
            /\ buffer' = Append(buffer,
                   write_assert(CONSENSUS_KEY,
                                /\ loc.actual_waypoint = loc.expected_waypoint
                                /\ r.v = loc.validator_config[1].consensus_public_key))
            /\ Advance("read_consensus_key", "", "read_validator_network_key")
       ELSE /\ UNCHANGED <<loc, buffer>>
            /\ Abort("read_consensus_key", r.e)
    /\ UNCHANGED <<genesis_path, store, db_dir, ledger, returned>>

\* storage.bls12381_public_from_private(CONSENSUS_KEY)? and the CONSENSUS_KEY line
ReadConsensusKey ==
    /\ pc = "read_consensus_key"
    /\ LET r == bls12381_public_from_private(store, CONSENSUS_KEY) IN
       IF r.ok
       THEN /\ loc' = [loc EXCEPT !.actual_consensus_key = Some(r.v)]
            /\ buffer' = Append(buffer,
                   write_assert(CONSENSUS_KEY,
                                r.v = loc.validator_config[1].consensus_public_key))
            /\ Advance("read_consensus_key", "", "read_validator_network_key")
       ELSE /\ UNCHANGED <<loc, buffer>>
            /\ Abort("read_consensus_key", r.e)
    /\ UNCHANGED <<genesis_path, store, db_dir, ledger, returned>>

\* storage.x25519_public_from_private(VALIDATOR_NETWORK_KEY)?
ReadValidatorNetworkKey ==
    /\ pc = "read_validator_network_key"
    /\ LET r == x25519_public_from_private(store, VALIDATOR_NETWORK_KEY) IN
       IF r.ok
       THEN /\ loc' = [loc EXCEPT !.actual_validator_key = Some(r.v)]
            /\ Advance("read_validator_network_key", "", "read_fullnode_network_key")
       ELSE /\ loc' = loc
            /\ Abort("read_validator_network_key", r.e)
    /\ UNCHANGED <<genesis_path, store, buffer, db_dir, ledger, returned>>

\* storage.x25519_public_from_private(FULLNODE_NETWORK_KEY)?
ReadFullnodeNetworkKey ==
    /\ pc = "read_fullnode_network_key"
    /\ LET r == x25519_public_from_private(store, FULLNODE_NETWORK_KEY) IN
       IF r.ok
       THEN /\ loc' = [loc EXCEPT !.actual_fullnode_key = Some(r.v)]
            /\ Advance("read_fullnode_network_key", "", "compare_validator_network_key")
       ELSE /\ loc' = loc
            /\ Abort("read_fullnode_network_key", r.e)
    /\ UNCHANGED <<genesis_path, store, buffer, db_dir, ledger, returned>>

\* Result::unwrap_or_default on a Vec
UnwrapOrDefault(r) == IF r.ok THEN r.v ELSE <<>>

\* Result::ok
OkOption(r) == IF r.ok THEN Some(r.v) ELSE None

\* validator_network_addresses().unwrap_or_default(), then
\* network_addrs.get(0).and_then(find_noise_proto)
ExpectedValidatorKey(network_addrs) == AndThenNoise(First(network_addrs))

\* fullnode_network_addresses().ok().and_then(|addrs| addrs.get(0).and_then(..))
ExpectedFullnodeKey(decoded) ==
    LET addrs == OkOption(decoded) IN
    IF addrs = None THEN None ELSE AndThenNoise(First(addrs[1]))

\* the VALIDATOR_NETWORK_KEY line
CompareValidatorNetworkKey ==
    /\ pc = "compare_validator_network_key"
    /\ \E decoded \in DecodeOutcomes :
         LET network_addrs == UnwrapOrDefault(decoded)
             expected_validator_key == ExpectedValidatorKey(network_addrs)
         IN /\ loc' = [loc EXCEPT !.network_addrs = Some(network_addrs),
                                  !.expected_validator_key = Some(expected_validator_key)]
            /\ buffer' = Append(buffer,
                   write_assert(VALIDATOR_NETWORK_KEY,
                                Some(loc.actual_validator_key[1]) = expected_validator_key))
            /\ steps' = Append(steps, [op |-> "validator_network_addresses",
                                       ok |-> decoded.ok, arg |-> "",
                                       out |-> OkOption(decoded)])
    /\ pc' = "compare_fullnode_network_key"
    /\ UNCHANGED <<genesis_path, store, db_dir, ledger, cg, returned>>

\* the FULLNODE_NETWORK_KEY line, and Ok(())
CompareFullnodeNetworkKey ==
    /\ pc = "compare_fullnode_network_key"
    /\ \E decoded \in DecodeOutcomes :
         LET expected_fullnode_key == ExpectedFullnodeKey(decoded)
         IN /\ loc' = [loc EXCEPT !.expected_fullnode_key = Some(expected_fullnode_key)]
            /\ buffer' = Append(buffer,
                   write_assert(FULLNODE_NETWORK_KEY,
                                Some(loc.actual_fullnode_key[1]) = expected_fullnode_key))
            /\ steps' = Append(steps, [op |-> "fullnode_network_addresses",
                                       ok |-> decoded.ok, arg |-> "",
                                       out |-> OkOption(decoded)])
    /\ cg' = Some(Ok("()"))
    /\ pc' = "cg_exit"
    /\ UNCHANGED <<genesis_path, store, db_dir, ledger, returned>>

\* Drop of TempPath: the directory is removed
TempPathDrop(dir) == "absent"

\* compare_genesis returns on an Err and leaves the directory of db_path behind
CompareGenesisExitLeakOnErr ==
    /\ pc = "cg_exit"
    /\ loc' = NoLocals
    /\ ledger' = "closed"
    /\ db_dir' = IF cg[1].ok THEN TempPathDrop(db_dir) ELSE db_dir
    /\ pc' = "compare_returned"
    /\ UNCHANGED <<genesis_path, store, buffer, cg, returned, steps>>

\* compare_genesis returns, by Ok(()) or by `?`: its locals go out of scope, the
\* ledger handle first, db_path last
CompareGenesisExit ==
    /\ pc = "cg_exit"
    /\ loc' = NoLocals
    /\ ledger' = "closed"
    /\ db_dir' = TempPathDrop(db_dir)
    /\ pc' = "compare_returned"
    /\ UNCHANGED <<genesis_path, store, buffer, cg, returned, steps>>

\* `let _ = compare_genesis(..)`: the error is dropped and the buffer returned
VerifyReturnIgnoringErr ==
    /\ pc = "compare_returned"
    /\ returned' = Some(Ok(buffer))
    /\ buffer' = <<>>
    /\ pc' = "done"
    /\ UNCHANGED <<genesis_path, store, loc, db_dir, ledger, cg, steps>>

\* compare_genesis(..)?; Ok(buffer)
VerifyReturn ==
    /\ pc = "compare_returned"
    /\ returned' = Some(IF cg[1].ok THEN Ok(buffer) ELSE Err(cg[1].e))
    /\ buffer' = <<>>
    /\ pc' = "done"
    /\ UNCHANGED <<genesis_path, store, loc, db_dir, ledger, cg, steps>>

----------------------------------------------------------------------------
(* Specification *)

Next ==
    \/ WriteHeader
    \/ WriteConsensusKey
    \/ WriteFullnodeNetworkKey
    \/ WriteOwnerKey
    \/ WriteOperatorKey
    \/ WriteValidatorNetworkKey
    \/ WriteDataHeader
    \/ WriteOperatorAccount
    \/ WriteOwnerAccount
    \/ WriteSafetyData
    \/ WriteWaypoint
    \/ WriteEndBreak
    \/ ReturnWithoutGenesis
    \/ EnterCompareGenesis
    \/ OpenLedger
    \/ OpenGenesisFile
    \/ ReadGenesis
    \/ ParseGenesis
    \/ GenerateWaypoint
    \/ CommitGenesis
    \/ ReadStoredWaypoint
    \/ ReadOwnerAccount
    \/ LookupValidatorConfig
    \/ ReadConsensusKey
    \/ ReadValidatorNetworkKey
    \/ ReadFullnodeNetworkKey
    \/ CompareValidatorNetworkKey
    \/ CompareFullnodeNetworkKey
    \/ CompareGenesisExit
    \/ VerifyReturn

Spec == Init /\ [][Next]_vars

----------------------------------------------------------------------------
(* Reading the report *)

Range(seq) == {seq[i] : i \in DOMAIN seq}

\* the text a caller of verify_genesis holds, or the buffer while the run goes on
Report ==
    IF returned # None
    THEN (IF returned[1].ok THEN returned[1].v ELSE <<>>)
    ELSE buffer

IsFieldLine(l) == Len(l) = Len(FieldLine("", ""))

IsComparisonLine(l) == IsFieldLine(l) /\ l[Len(l)] \in {"match", "MISMATCH"}

IsKeyLine(l) == IsFieldLine(l) /\ ~IsComparisonLine(l)

KeyLines(text) == SelectSeq(text, IsKeyLine)

ComparisonLines(text) == SelectSeq(text, IsComparisonLine)

LineName(l) == l[1]

LineValue(l) == l[Len(l)]

Failed(op) == \E i \in DOMAIN steps : steps[i].op = op /\ ~steps[i].ok

Succeeded(op) == \E i \in DOMAIN steps : steps[i].op = op /\ steps[i].ok

\* the order in which verify_genesis dumps the keys
KeyLineOrder ==
    <<CONSENSUS_KEY, FULLNODE_NETWORK_KEY, OWNER_KEY, OPERATOR_KEY, VALIDATOR_NETWORK_KEY,
      OPERATOR_ACCOUNT, OWNER_ACCOUNT, SAFETY_DATA, WAYPOINT>>

\* the order of the fallible steps of compare_genesis
CompareOrder ==
    <<"open_ledger", "open_genesis_file", "read_genesis", "parse_genesis",
      "generate_waypoint", "commit_genesis", "read_waypoint", "read_owner_account",
      "validator_config", "read_consensus_key", "read_validator_network_key",
      "read_fullnode_network_key">>

CompareOps == Range(CompareOrder)

\* the steps of the run that are steps of CompareOrder
OrderedSteps == SelectSeq(steps, LAMBDA st : st.op \in CompareOps)

----------------------------------------------------------------------------
(* C1: with a genesis file whose replay and validator lookup succeed, a stored
   key of the comparison section that cannot be read is not fatal: verify_genesis
   returns Ok and the comparison section reports that field as MISMATCH.
   This is the claim as stated; the code returns the read's error instead. *)
C1_UnreadableKeyNotFatal ==
    (pc = "done" /\ genesis_path # None /\ Succeeded("validator_config")) =>
        /\ returned[1].ok
        /\ \A k \in {CONSENSUS_KEY, VALIDATOR_NETWORK_KEY, FULLNODE_NETWORK_KEY} :
             store[k] = NotSet => write_assert(k, FALSE) \in Range(returned[1].v)

FatalOps ==
    {"open_ledger", "open_genesis_file", "read_genesis", "parse_genesis",
     "generate_waypoint", "commit_genesis", "validator_config"}

(* C2: when a fatal condition occurs (ledger, genesis file, parse, waypoint
   generation, commit, validator set or validator entry), verify_genesis returns
   that step's Err and no report text reaches the caller. *)
C2_FatalReturnsNoReport ==
    pc = "done" =>
        \A i \in DOMAIN steps :
            (steps[i].op \in FatalOps /\ ~steps[i].ok) =>
                returned = Some(Err(steps[i].arg))

C2_Witness ==
    /\ pc = "done"
    /\ Failed("validator_config")
    /\ Succeeded("read_waypoint")
    /\ ~returned[1].ok

(* C3: without a genesis file verify_genesis returns Ok whatever the nine reads
   give; the report holds exactly the nine key lines in the fixed order, a failed
   read shows the error's display text, and there is no comparison line. *)
C3_DumpWithoutGenesis ==
    (pc = "done" /\ genesis_path = None) =>
        /\ returned[1].ok
        /\ LET lines == KeyLines(returned[1].v) IN
           /\ Len(lines) = Len(KeyLineOrder)
           /\ \A i \in DOMAIN KeyLineOrder :
                /\ LineName(lines[i]) = KeyLineOrder[i]
                /\ ~string(store, KeyLineOrder[i]).ok =>
                       LineValue(lines[i]) = ErrToString(string(store, KeyLineOrder[i]).e)
        /\ ComparisonLines(returned[1].v) = <<>>

C3_Witness ==
    /\ pc = "done"
    /\ genesis_path = None
    /\ returned[1].ok
    /\ store[CONSENSUS_KEY] = NotSet
    /\ store[OPERATOR_ACCOUNT] = NotSet
    /\ store[WAYPOINT] = NotSet
    /\ store[OWNER_KEY] # NotSet
    /\ store[SAFETY_DATA] # NotSet

(* C4: a comparison line is written for a field only when both sides were
   obtained; a validator or fullnode address list that fails to decode gives no
   comparison line for its field.  This is the claim as stated; the code writes
   MISMATCH for such a field. *)
C4_NoLineWithoutBothSides ==
    /\ Failed("validator_network_addresses") =>
           \A l \in Range(Report) :
               IsComparisonLine(l) => LineName(l) # VALIDATOR_NETWORK_KEY
    /\ Failed("fullnode_network_addresses") =>
           \A l \in Range(Report) :
               IsComparisonLine(l) => LineName(l) # FULLNODE_NETWORK_KEY

----------------------------------------------------------------------------
FirstAddressCarries(out, key) ==
    /\ out # None
    /\ Len(out[1]) > 0
    /\ find_noise_proto(out[1][1]) = Some(key)

LineMatchesFirstAddress(op, key) ==
    \A i \in DOMAIN steps :
        steps[i].op = op =>
            LET stored == x25519_public_from_private(store, key).v
                lines == SelectSeq(ComparisonLines(Report), LAMBDA l : LineName(l) = key)
            IN /\ Len(lines) = 1
               /\ LineValue(lines[1]) =
                      IF FirstAddressCarries(steps[i].out, stored) THEN "match" ELSE "MISMATCH"

(* C5: for each traffic class the comparison line is `match` exactly when the
   first address of the class's list carries an embedded transport key equal to
   the stored key; an empty list, a first address without a key, or a first
   address with another key give MISMATCH, whatever the later addresses carry. *)
C5_FirstAddressDecides ==
    /\ LineMatchesFirstAddress("validator_network_addresses", VALIDATOR_NETWORK_KEY)
    /\ LineMatchesFirstAddress("fullnode_network_addresses", FULLNODE_NETWORK_KEY)

\* the first address carries another key, the second the stored key: MISMATCH
LaterAddressIgnored(op, key) ==
    \E i \in DOMAIN steps :
        /\ steps[i].op = op
        /\ steps[i].out # None
        /\ Len(steps[i].out[1]) = MaxAddrs
        /\ find_noise_proto(steps[i].out[1][1]) # None
        /\ find_noise_proto(steps[i].out[1][1]) # Some(PublicKey("x25519", store[key]))
        /\ find_noise_proto(steps[i].out[1][MaxAddrs]) = Some(PublicKey("x25519", store[key]))
        /\ write_assert(key, FALSE) \in Range(Report)

C5_Witness ==
    /\ pc = "done"
    /\ LaterAddressIgnored("validator_network_addresses", VALIDATOR_NETWORK_KEY)
    /\ LaterAddressIgnored("fullnode_network_addresses", FULLNODE_NETWORK_KEY)

(* C6: an empty stored WAYPOINT string is shown as "empty"; with or without a
   genesis file it gives no error and no MISMATCH on the WAYPOINT line.  This is
   the claim as stated; with a genesis file the code returns an error. *)
C6_EmptyWaypointNoError ==
    (pc = "done" /\ store[WAYPOINT] = "") =>
        /\ returned[1].ok
        /\ FieldLine(WAYPOINT, "empty") \in Range(returned[1].v)
        /\ write_assert(WAYPOINT, FALSE) \notin Range(returned[1].v)

AllFetched ==
    /\ pc = "cg_exit"
    /\ cg = Some(Ok("()"))
    /\ Succeeded("validator_network_addresses")
    /\ Succeeded("fullnode_network_addresses")

(* C7: when every fetch and the replay succeed the comparison section is the
   four lines WAYPOINT, CONSENSUS_KEY, VALIDATOR_NETWORK_KEY, FULLNODE_NETWORK_KEY
   in this order, and each is `match` exactly when its own stored value equals
   its own expected value. *)
C7_EachLineItsOwnField ==
    AllFetched =>
        ComparisonLines(buffer) =
            <<write_assert(WAYPOINT, loc.actual_waypoint = loc.expected_waypoint),
              write_assert(CONSENSUS_KEY,
                           loc.actual_consensus_key[1] =
                               loc.validator_config[1].consensus_public_key),
              write_assert(VALIDATOR_NETWORK_KEY,
                           loc.actual_validator_key = loc.expected_validator_key[1]),
              write_assert(FULLNODE_NETWORK_KEY,
                           loc.actual_fullnode_key = loc.expected_fullnode_key[1])>>

\* a stored checkpoint that differs, the three keys as registered
C7_Witness ==
    /\ AllFetched
    /\ loc.actual_waypoint # loc.expected_waypoint
    /\ ComparisonLines(buffer) =
           <<write_assert(WAYPOINT, FALSE), write_assert(CONSENSUS_KEY, TRUE),
             write_assert(VALIDATOR_NETWORK_KEY, TRUE),
             write_assert(FULLNODE_NETWORK_KEY, TRUE)>>

C9_DumpedIsCompared ==
    /\ loc.actual_validator_key # None =>
           FieldLine(VALIDATOR_NETWORK_KEY, KeyToString(loc.actual_validator_key[1]))
               \in Range(buffer)
    /\ loc.actual_fullnode_key # None =>
           FieldLine(FULLNODE_NETWORK_KEY, KeyToString(loc.actual_fullnode_key[1]))
               \in Range(buffer)

ArgOf(os, op) == os[CHOOSE i \in DOMAIN os : os[i].op = op].arg

Done(os, op) == \E i \in DOMAIN os : os[i].op = op

(* C10: compare_genesis performs its fallible steps in the fixed order and stops
   at the first that fails: the steps done are a prefix of the order, only the
   last may have failed and its error is the one returned; the commit uses the
   waypoint generated before it, the validator record is read from a ledger that
   holds the genesis, and a step is reached only if the stored values read before
   it were readable. *)
C10_LinearStopAtFirstFailure ==
    LET os == OrderedSteps
        n == Len(os)
    IN
    /\ n <= Len(CompareOrder)
    /\ \A i \in 1..n :
         /\ os[i].op = CompareOrder[i]
         /\ i < n => os[i].ok
    /\ (cg # None /\ ~cg[1].ok) =>
           /\ n > 0
           /\ ~os[n].ok
           /\ cg[1].e = os[n].arg
    /\ (cg # None /\ cg[1].ok) =>
           /\ n = Len(CompareOrder)
           /\ os[n].ok
    /\ Succeeded("commit_genesis") =>
           ArgOf(os, "commit_genesis") = ArgOf(os, "generate_waypoint")
    /\ pc = "validator_config" => ledger = "genesis"
    /\ Done(os, "validator_config") => Succeeded("commit_genesis")
    /\ Done(os, "read_owner_account") => waypoint(store, WAYPOINT).ok
    /\ Done(os, "validator_config") => account_address(store, OWNER_ACCOUNT).ok
    /\ Done(os, "read_validator_network_key") =>
           bls12381_public_from_private(store, CONSENSUS_KEY).ok
    /\ Done(os, "read_fullnode_network_key") =>
           x25519_public_from_private(store, VALIDATOR_NETWORK_KEY).ok

\* several steps would fail: the stored waypoint and the owner account are both
\* unreadable, and the error returned is the waypoint's
C10_Witness ==
    /\ pc = "done"
    /\ ~waypoint(store, WAYPOINT).ok
    /\ ~account_address(store, OWNER_ACCOUNT).ok
    /\ ~bls12381_public_from_private(store, CONSENSUS_KEY).ok
    /\ returned = Some(Err(waypoint(store, WAYPOINT).e))

====
